---------------------------- MODULE Spec2Model ----------------------------
(***************************************************************************)
(* A model of amruth, the CLI that searches hex.pm, lets the user pick     *)
(* packages and patches mix.exs.  The repository ships the program twice:  *)
(* src/src/index.ts for Node and src/mod.ts for Deno.  The two share their *)
(* logic line by line and differ in how they run commands; the variable    *)
(* runtime says which of the two a run executes.                           *)
(*                                                                         *)
(* Text is modelled as sequences of one-character strings, so that the     *)
(* regular expressions and template strings of the source are computed     *)
(* character by character.                                                 *)
(***************************************************************************)
EXTENDS Integers, Sequences, FiniteSets

(***************************************************************************)
(* Characters and string primitives of the JavaScript runtime.             *)
(***************************************************************************)

\* \s of a JavaScript regular expression, restricted to the model's alphabet.
IsWs(c) == c \in {" ", "\n", "\t"}

\* \d of a JavaScript regular expression.
IsDigit(c) == c \in {"0", "1", "2", "3", "4", "5", "6", "7", "8", "9"}

\* String.prototype.toLowerCase, character by character.
LowerChar(c) ==
    CASE c = "P" -> "p"
      [] c = "O" -> "o"
      [] c = "W" -> "w"
      [] c = "M" -> "m"
      [] c = "C" -> "c"
      [] OTHER -> c

ToLowerCase(s) == [i \in 1..Len(s) |-> LowerChar(s[i])]

\* The literal lit occurs in text at position i (1-based).
MatchAt(lit, text, i) ==
    /\ i >= 1
    /\ i + Len(lit) - 1 <= Len(text)
    /\ \A k \in 1..Len(lit) : text[i + k - 1] = lit[k]

\* String.prototype.startsWith.
StartsWith(s, prefix) == MatchAt(prefix, s, 1)

\* String.prototype.includes.
Includes(s, sub) == \E i \in 1..Len(s) : MatchAt(sub, s, i)

\* Greedy \s* from position i: the first position at or after i that holds
\* no whitespace (Len(text) + 1 when the text ends first).
RECURSIVE SkipWs(_, _)
SkipWs(text, i) ==
    IF i <= Len(text) /\ IsWs(text[i]) THEN SkipWs(text, i + 1) ELSE i

\* Greedy \S* from position i.
RECURSIVE SkipNonWs(_, _)
SkipNonWs(text, i) ==
    IF i <= Len(text) /\ ~IsWs(text[i]) THEN SkipNonWs(text, i + 1) ELSE i

\* Greedy \d* from position i.
RECURSIVE SkipDigits(_, _)
SkipDigits(text, i) ==
    IF i <= Len(text) /\ IsDigit(text[i]) THEN SkipDigits(text, i + 1) ELSE i

\* The text from position i (inclusive) to position j (exclusive).
Slice(text, i, j) == SubSeq(text, i, j - 1)

\* String.prototype.replace(ch, "") with a one-character string pattern:
\* only the first occurrence is removed.
RECURSIVE RemoveFirst(_, _)
RemoveFirst(s, ch) ==
    IF s = << >> THEN << >>
    ELSE IF Head(s) = ch THEN Tail(s)
    ELSE <<Head(s)>> \o RemoveFirst(Tail(s), ch)

\* String.prototype.split("\n").
RECURSIVE SplitFrom(_, _, _)
SplitFrom(text, i, cur) ==
    IF i > Len(text) THEN <<cur>>
    ELSE IF text[i] = "\n" THEN <<cur>> \o SplitFrom(text, i + 1, << >>)
    ELSE SplitFrom(text, i + 1, Append(cur, text[i]))

SplitLines(text) == SplitFrom(text, 1, << >>)

\* JavaScript's undefined, where a string is expected: no character sequence
\* the program builds is empty where this is used.
Undefined == << >>

(***************************************************************************)
(* parseMixExs: the lock-version mapping scraped from `mix deps`.          *)
(***************************************************************************)

LockedAtLiteral == <<"l","o","c","k","e","d"," ","a","t">>

ProjectNotFoundText == <<"C","o","u","l","d"," ","n","o","t"," ","f","i","n","d"," ","a"," ","M","i","x",".","P","r","o","j","e","c","t">>

\* /locked at\s+(\S+)\s+(\S+)/ tried at position i of a line: the positions
\* b..c of the first group and d..e of the second, e = 0 when it fails there.
\* Each \S+ is followed by \s+ or by the end of the pattern, so the greedy
\* match is the only one.
LockedAtTry(line, i) ==
    IF ~MatchAt(LockedAtLiteral, line, i) THEN [b |-> 0, c |-> 0, d |-> 0, e |-> 0]
    ELSE LET a == i + Len(LockedAtLiteral)
             b == SkipWs(line, a)
             c == SkipNonWs(line, b)
             d == SkipWs(line, c)
             e == SkipNonWs(line, d)
         IN  IF b > a /\ c > b /\ d > c /\ e > d
             THEN [b |-> b, c |-> c, d |-> d, e |-> e]
             ELSE [b |-> 0, c |-> 0, d |-> 0, e |-> 0]

\* line.match(/locked at\s+(\S+)\s+(\S+)/): the leftmost position that matches.
LockedAtMatch(line) ==
    LET hits == {i \in 1..Len(line) : LockedAtTry(line, i).e # 0}
    IN  IF hits = {} THEN [matched |-> FALSE, version |-> << >>, nameWithParens |-> << >>]
        ELSE LET i == CHOOSE h \in hits : \A g \in hits : h <= g
                 m == LockedAtTry(line, i)
             IN  [matched |-> TRUE,
                  version |-> Slice(line, m.b, m.c),
                  nameWithParens |-> Slice(line, m.d, m.e)]

\* nameWithParens.replace("(", "") and then .replace(")", "").
CleanName(nameWithParens) == RemoveFirst(RemoveFirst(nameWithParens, "("), ")")

\* deps[key] = value on a plain object.
SetKey(deps, key, value) ==
    [n \in (DOMAIN deps) \cup {key} |-> IF n = key THEN value ELSE deps[n]]

\* The forEach over result.split("\n"): later lines overwrite earlier ones.
RECURSIVE ScanLines(_, _)
ScanLines(lines, deps) ==
    IF lines = << >> THEN deps
    ELSE LET m == LockedAtMatch(Head(lines))
         IN  ScanLines(Tail(lines),
                       IF m.matched
                       THEN SetKey(deps, CleanName(m.nameWithParens), m.version)
                       ELSE deps)

\* The empty object {}.
EmptyObject == [n \in {} |-> << >>]

\* What running `mix deps` can do: return the output (ExecReturned), end
\* with a non-zero status and some text on stderr (ExecFailed), or not
\* start at all (ExecSpawnError).
ExecReturned(stdout) == [ok |-> TRUE, stdout |-> stdout, stderrIsString |-> FALSE, stderr |-> << >>]

ExecFailed(stderr) == [ok |-> FALSE, stdout |-> << >>, stderrIsString |-> TRUE, stderr |-> stderr]

ExecSpawnError == [ok |-> FALSE, stdout |-> << >>, stderrIsString |-> FALSE, stderr |-> << >>]

\* Node: execSync throws for a non-zero status and for a child that could
\* not be spawned; the error carries the captured stderr text in the first
\* case and a null stderr in the second.  The catch block's
\* error.stderr.includes(...) throws a TypeError of its own when
\* error.stderr is not a string.
CatchThrows(exec) == ~exec.stderrIsString

\* parseMixExs of index.ts as a whole: threw (an error leaves the function),
\* the mapping it returns, and whether it printed "No Mix.Project found ...".
ParseMixExsNode(exec) ==
    IF exec.ok
    THEN [threw |-> FALSE, deps |-> ScanLines(SplitLines(exec.stdout), EmptyObject), info |-> FALSE]
    ELSE IF CatchThrows(exec)
    THEN [threw |-> TRUE, deps |-> EmptyObject, info |-> FALSE]
    ELSE [threw |-> FALSE, deps |-> EmptyObject,
          info |-> Includes(exec.stderr, ProjectNotFoundText)]

\* parseMixExs of mod.ts: the command's status is not looked at, so a run
\* that ends non-zero is scanned like any other (its stdout is empty); a
\* command that cannot be started throws, and the catch block tests the
\* error with instanceof and reads error.message, which never throws.
ParseMixExsDeno(exec) ==
    IF exec.ok \/ exec.stderrIsString
    THEN [threw |-> FALSE, deps |-> ScanLines(SplitLines(exec.stdout), EmptyObject), info |-> FALSE]
    ELSE [threw |-> FALSE, deps |-> EmptyObject, info |-> TRUE]

ParseMixExs(rt, exec) ==
    IF rt = "node" THEN ParseMixExsNode(exec) ELSE ParseMixExsDeno(exec)

(***************************************************************************)
(* Classification of the search results.                                   *)
(***************************************************************************)

N_constructor == <<"c","o","n","s","t","r","u","c","t","o","r">>

N_valueOf == <<"v","a","l","u","e","O","f">>

\* Names every plain object inherits from Object.prototype: existingDeps is
\* created as {} and read with existingDeps[pkg.name].
ObjectPrototypeKeys == {N_constructor, N_valueOf}

\* The value read for an inherited name: a function object, truthy and
\* different from every string.
InheritedMember == <<"[Function]">>

\* existingDeps[name]: an own property, else an inherited one, else undefined.
GetKey(deps, name) ==
    IF name \in DOMAIN deps THEN deps[name]
    ELSE IF name \in ObjectPrototypeKeys THEN InheritedMember
    ELSE Undefined

\* JavaScript truthiness of a string-or-undefined value: undefined and the
\* empty string are both falsy, and both are << >> here.
Truthy(v) == v # Undefined

\* One element of packages.map(...): status "none" stands for the absent
\* status field of a package returned as it is.
Categorize(pkg, deps) ==
    LET cur == GetKey(deps, pkg.name)
    IN  IF Truthy(cur)
        THEN IF cur # pkg.version
             THEN [name |-> pkg.name, version |-> pkg.version,
                   status |-> "upgrade", currentVersion |-> cur]
             ELSE [name |-> pkg.name, version |-> pkg.version,
                   status |-> "installed", currentVersion |-> cur]
        ELSE [name |-> pkg.name, version |-> pkg.version,
              status |-> "none", currentVersion |-> Undefined]

CategorizeAll(packages, deps) ==
    [i \in 1..Len(packages) |-> Categorize(packages[i], deps)]

\* Array.prototype.filter by status.
RECURSIVE FilterStatus(_, _)
FilterStatus(pkgs, status) ==
    IF pkgs = << >> THEN << >>
    ELSE IF Head(pkgs).status = status
         THEN <<Head(pkgs)>> \o FilterStatus(Tail(pkgs), status)
         ELSE FilterStatus(Tail(pkgs), status)

(***************************************************************************)
(* Ranking of the installable candidates.                                  *)
(***************************************************************************)

Min2(x, y) == IF x <= y THEN x ELSE y

Max2(x, y) == IF x >= y THEN x ELSE y

\* Row i of the edit-distance matrix from row i - 1 (prev), filled left to
\* right; row[j + 1] holds matrix[i][j].  bc is b.charAt(i - 1).
RECURSIVE LevFillRow(_, _, _, _)
LevFillRow(prev, a, bc, row) ==
    LET j == Len(row)
    IN  IF j > Len(a) THEN row
        ELSE LevFillRow(prev, a, bc,
                 Append(row,
                        IF bc = a[j]
                        THEN prev[j]
                        ELSE Min2(prev[j] + 1, Min2(row[j] + 1, prev[j + 1] + 1))))

\* Rows 1..Len(b) in turn, starting from row 0 = 0, 1, ..., Len(a).
RECURSIVE LevRows(_, _, _, _)
LevRows(prev, a, b, i) ==
    IF i > Len(b) THEN prev
    ELSE LevRows(LevFillRow(prev, a, b[i], <<i>>), a, b, i + 1)

\* levenshteinDistance(a, b) = matrix[b.length][a.length].
LevenshteinDistance(a, b) ==
    LevRows([j \in 1..(Len(a) + 1) |-> j - 1], a, b, 1)[Len(a) + 1]

\* calculateRelevance: 1 - distance / max(len), kept as the exact fraction
\* num / den = (max - distance) / max.  The lengths are those of the strings
\* as given, the distance that of their lower-cased forms.
CalculateRelevance(name, searchedWord) ==
    LET distance == LevenshteinDistance(ToLowerCase(name), ToLowerCase(searchedWord))
        m == Max2(Len(name), Len(searchedWord))
    IN  [num |-> m - distance, den |-> m]

\* aRelevance !== bRelevance and the sign of bRelevance - aRelevance, on the
\* exact fractions (den > 0: the query is not empty).
RelEqual(x, y) == x.num * y.den = y.num * x.den

RelLess(x, y) == x.num * y.den < y.num * x.den

\* The collation String.prototype.localeCompare uses by default (the root
\* collation of the runtime's ICU): the strings are compared by their
\* characters' primary weights first, where "_" (punctuation) comes before
\* the digits, the digits before the letters, and the two cases of a letter
\* weigh the same; only when all primary weights agree does case decide,
\* lower case first.
LetterOrder == <<"a","b","c","d","e","f","g","h","i","j","k","l","m","n","o","p","q","r","s","t","u","v","w","x","y","z">>

DigitOrder == <<"0","1","2","3","4","5","6","7","8","9">>

IndexIn(order, c) == CHOOSE i \in 1..Len(order) : order[i] = c

InOrder(order, c) == \E i \in 1..Len(order) : order[i] = c

PrimaryWeight(c) ==
    IF InOrder(LetterOrder, LowerChar(c)) THEN 100 + IndexIn(LetterOrder, LowerChar(c))
    ELSE IF InOrder(DigitOrder, c) THEN 50 + IndexIn(DigitOrder, c)
    ELSE 1

TertiaryWeight(c) == IF LowerChar(c) # c THEN 1 ELSE 0

\* Lexicographic comparison of two weight sequences: -1, 0 or 1.
RECURSIVE LexCompare(_, _)
LexCompare(x, y) ==
    IF x = << >> /\ y = << >> THEN 0
    ELSE IF x = << >> THEN -1
    ELSE IF y = << >> THEN 1
    ELSE IF Head(x) < Head(y) THEN -1
    ELSE IF Head(x) > Head(y) THEN 1
    ELSE LexCompare(Tail(x), Tail(y))

\* a.localeCompare(b).
LocaleCompare(a, b) ==
    LET pa == [i \in 1..Len(a) |-> PrimaryWeight(a[i])]
        pb == [i \in 1..Len(b) |-> PrimaryWeight(b[i])]
        p == LexCompare(pa, pb)
    IN  IF p # 0 THEN p
        ELSE LexCompare([i \in 1..Len(a) |-> TertiaryWeight(a[i])],
                        [i \in 1..Len(b) |-> TertiaryWeight(b[i])])

\* CompareInstallable with the relevance difference taken the other way
\* round (aRelevance - bRelevance).
CompareInstallable_Ascending(a, b, query) ==
    LET aRelevance == CalculateRelevance(a.name, query)
        bRelevance == CalculateRelevance(b.name, query)
    IN  IF ~RelEqual(aRelevance, bRelevance)
        THEN IF RelLess(aRelevance, bRelevance) THEN -1 ELSE 1
        ELSE LocaleCompare(a.name, b.name)

\* The comparator handed to sort: negative when a goes first.
CompareInstallable(a, b, query) ==
    LET aRelevance == CalculateRelevance(a.name, query)
        bRelevance == CalculateRelevance(b.name, query)
    IN  IF ~RelEqual(aRelevance, bRelevance)
        THEN IF RelLess(bRelevance, aRelevance) THEN -1 ELSE 1
        ELSE LocaleCompare(a.name, b.name)

\* Array.prototype.sort is stable: x goes behind every element that does
\* not compare greater than it.
RECURSIVE InsertSorted(_, _, _)
InsertSorted(sorted, x, query) ==
    IF sorted = << >> THEN <<x>>
    ELSE IF CompareInstallable(Head(sorted), x, query) <= 0
         THEN <<Head(sorted)>> \o InsertSorted(Tail(sorted), x, query)
         ELSE <<x>> \o sorted

RECURSIVE SortInstallable(_, _)
SortInstallable(pkgs, query) ==
    IF pkgs = << >> THEN << >>
    ELSE InsertSorted(SortInstallable(SubSeq(pkgs, 1, Len(pkgs) - 1), query),
                      pkgs[Len(pkgs)], query)

\* The choices array: installed (disabled), then upgrade, then the sorted
\* installable packages.  A choice keeps the package as its value; its
\* display label is not modelled.
Choice(pkg, disabled) == [value |-> pkg, disabled |-> disabled]

AsChoices(pkgs, disabled) == [i \in 1..Len(pkgs) |-> Choice(pkgs[i], disabled)]

BuildChoices(categorized, query) ==
    AsChoices(FilterStatus(categorized, "installed"), TRUE)
    \o AsChoices(FilterStatus(categorized, "upgrade"), FALSE)
    \o AsChoices(SortInstallable(FilterStatus(categorized, "none"), query), FALSE)

(***************************************************************************)
(* addToMixExs: the edit of the manifest text.                             *)
(***************************************************************************)

MarkerLiteral == <<"d","e","f","p"," ","d","e","p","s"," ","d","o">>

TupleOpen == <<"{",":">>

RangeOp == <<"~",">">>

InsertSeparator == <<",","\n"," "," "," "," ">>

\* depsRegex = /defp deps do\s*\[\s*/ tried at position i: the position
\* after the match, 0 when it fails there.  "[" is no whitespace, so the
\* greedy \s* before it is the only way to match.
DepsRegexEnd(text, i) ==
    IF ~MatchAt(MarkerLiteral, text, i) THEN 0
    ELSE LET j == SkipWs(text, i + Len(MarkerLiteral))
         IN  IF j <= Len(text) /\ text[j] = "[" THEN SkipWs(text, j + 1) ELSE 0

\* The leftmost match of depsRegex: its start and the position after it
\* (start = 0: no match).
DepsRegexMatch(text) ==
    LET hits == {i \in 1..Len(text) : DepsRegexEnd(text, i) # 0}
    IN  IF hits = {} THEN [start |-> 0, end |-> 0]
        ELSE LET i == CHOOSE h \in hits : \A g \in hits : h <= g
             IN  [start |-> i, end |-> DepsRegexEnd(text, i)]

\* `{:${pkg.name}, "~> ${pkg.version}"}`
RangeDep(name, version) ==
    TupleOpen \o name \o <<",", " ", "\"">> \o RangeOp \o <<" ">> \o version \o <<"\"", "}">>

\* `{:${pkg.name}, "${pkg.version}"}`
ExactDep(name, version) ==
    TupleOpen \o name \o <<",", " ", "\"">> \o version \o <<"\"", "}">>

\* InsertDep with a pattern that stops at the bracket (/defp deps do\s*\[/).
InsertDep_AfterBracket(text, pkg) ==
    LET m == DepsRegexMatch(text)
        e == SkipWs(text, m.start + Len(MarkerLiteral)) + 1
    IN  IF m.start = 0 THEN text
        ELSE Slice(text, 1, e) \o RangeDep(pkg.name, pkg.version) \o InsertSeparator
             \o Slice(text, e, Len(text) + 1)

\* mixExsContent.replace(depsRegex, (match) => `${match}${newDep},\n    `):
\* the first match only, and the text as it is when there is none.
InsertDep(text, pkg) ==
    LET m == DepsRegexMatch(text)
    IN  IF m.start = 0 THEN text
        ELSE Slice(text, 1, m.end) \o RangeDep(pkg.name, pkg.version) \o InsertSeparator
             \o Slice(text, m.end, Len(text) + 1)

\* new RegExp(`{:${pkg.name},\\s*"(\\d+\\.\\d+\\.\\d+)"?}`) tried at
\* position i: the group's positions b..c and the position after the match
\* (end = 0 when it fails there).  The names of the model hold no character
\* that is special in a regular expression.
ExistingDepTry(text, name, i) ==
    LET fail == [b |-> 0, c |-> 0, end |-> 0]
        head == TupleOpen \o name \o <<",">>
    IN  IF ~MatchAt(head, text, i) THEN fail
        ELSE LET q == SkipWs(text, i + Len(head))
                 b == q + 1
                 d1 == SkipDigits(text, b)
                 d2 == SkipDigits(text, d1 + 1)
                 c == SkipDigits(text, d2 + 1)
                 r == IF c <= Len(text) /\ text[c] = "\"" THEN c + 1 ELSE c
             IN  IF /\ q <= Len(text) /\ text[q] = "\""
                    /\ d1 > b /\ d1 <= Len(text) /\ text[d1] = "."
                    /\ d2 > d1 + 1 /\ d2 <= Len(text) /\ text[d2] = "."
                    /\ c > d2 + 1
                    /\ r <= Len(text) /\ text[r] = "}"
                 THEN [b |-> b, c |-> c, end |-> r + 1]
                 ELSE fail

ExistingDepMatch(text, name) ==
    LET hits == {i \in 1..Len(text) : ExistingDepTry(text, name, i).end # 0}
    IN  IF hits = {} THEN [start |-> 0, b |-> 0, c |-> 0, end |-> 0]
        ELSE LET i == CHOOSE h \in hits : \A g \in hits : h <= g
                 m == ExistingDepTry(text, name, i)
             IN  [start |-> i, b |-> m.b, c |-> m.c, end |-> m.end]

\* The replacement callback (match, version) => ...: version is the text of
\* the capture group.
UpgradeReplacement(pkg, version) ==
    IF StartsWith(version, RangeOp)
    THEN RangeDep(pkg.name, pkg.version)
    ELSE ExactDep(pkg.name, pkg.version)

\* mixExsContent.replace(existingDepRegex, callback).
UpgradeDep(text, pkg) ==
    LET m == ExistingDepMatch(text, pkg.name)
    IN  IF m.start = 0 THEN text
        ELSE Slice(text, 1, m.start)
             \o UpgradeReplacement(pkg, Slice(text, m.b, m.c))
             \o Slice(text, m.end, Len(text) + 1)

\* One round of packages.forEach.
ApplyPackage(text, pkg) ==
    IF pkg.status = "upgrade" THEN UpgradeDep(text, pkg) ELSE InsertDep(text, pkg)

\* ApplyAll with every round editing the text as read, not the text the
\* round before left: only the last round's edit survives.
ApplyAll_FromOriginal(text, pkgs) ==
    IF pkgs = << >> THEN text ELSE ApplyPackage(text, pkgs[Len(pkgs)])

\* The whole forEach, in the order of the array.
RECURSIVE ApplyAll(_, _)
ApplyAll(text, pkgs) ==
    IF pkgs = << >> THEN text
    ELSE ApplyAll(ApplyPackage(text, Head(pkgs)), Tail(pkgs))

(***************************************************************************)
(* The inputs of a run: the command line, the registry's answer, the       *)
(* output of `mix deps`, the manifest on disk, the user's selection and    *)
(* the outcome of the two mix commands.                                    *)
(***************************************************************************)

\* The longest list the registry answers with.
MaxResults == 3

\* The most packages the user ticks in the prompt.
MaxSelected == 2

N_pow == <<"p","o","w">>

N_po_ == <<"p","o","_">>

N_po1 == <<"p","o","1">>

V_100 == <<"1",".","0",".","0">>

V_102 == <<"1",".","0",".","2">>

Q_Pow == <<"P","o","w">>

\* searchHexPackages maps each registry entry to {name, version}.
HexPackage(name, version) == [name |-> name, version |-> version]

RegistryPool ==
    {HexPackage(N_pow, V_102), HexPackage(N_po_, V_102),
     HexPackage(N_po1, V_102), HexPackage(N_constructor, V_100)}

\* The registry's answers: lists of packages with distinct names.
SearchResults ==
    {r \in UNION {[1..n -> RegistryPool] : n \in 0..MaxResults} :
        \A i, j \in 1..Len(r) : i # j => r[i].name # r[j].name}

\* process.argv.slice(2)[1]: a search term, or nothing.
Queries == {Q_Pow, Undefined}

OutPowOld == <<" "," ","l","o","c","k","e","d"," ","a","t"," ","1",".","0",".","0"," ","(","p","o","w",")"," ","6","a","8","a","\n">>

OutPowLatest == <<" "," ","l","o","c","k","e","d"," ","a","t"," ","1",".","0",".","2"," ","(","p","o","w",")"," ","6","a","8","a","\n">>

OutPowPo1Old == <<" "," ","l","o","c","k","e","d"," ","a","t"," ","1",".","0",".","0"," ","(","p","o","w",")"," ","6","a","8","a","\n"," "," ","l","o","c","k","e","d"," ","a","t"," ","1",".","0",".","0"," ","(","p","o","1",")"," ","6","a","8","a","\n">>

OutNoName == <<" "," ","l","o","c","k","e","d"," ","a","t"," ","1",".","0",".","0","\n">>

StderrNoProject == <<"*","*"," ","(","M","i","x",")"," ","C","o","u","l","d"," ","n","o","t"," ","f","i","n","d"," ","a"," ","M","i","x",".","P","r","o","j","e","c","t">>

StderrOther == <<"m","i","x",":"," ","n","o","t"," ","f","o","u","n","d">>

\* The outcomes of the lock-listing command.
MixDepsOutcomes ==
    {ExecReturned(OutPowOld), ExecReturned(OutPowLatest), ExecReturned(OutPowPo1Old),
     ExecReturned(OutNoName), ExecFailed(StderrNoProject), ExecFailed(StderrOther),
     ExecSpawnError}

ManifestExact == <<"d","e","f","p"," ","d","e","p","s"," ","d","o","\n"," "," ","[","\n"," "," "," "," ","{",":","p","o","w",","," ","\"","1",".","0",".","0","\"","}",",","\n"," "," "," "," ","{",":","p","o","1",",","\"","1",".","0",".","0","\"","}","\n"," "," ","]">>

ManifestRange == <<"d","e","f","p"," ","d","e","p","s"," ","d","o","\n"," "," ","[","{",":","p","o","w",","," ","\"","~",">"," ","1",".","0",".","0","\"","}","]">>

ManifestTwoMarkers == <<"d","e","f","p"," ","d","e","p","s"," ","d","o"," ","["," ","]","\n","d","e","f","p"," ","d","e","p","s"," ","d","o"," ","["," ","]">>

ManifestNoMarker == <<"d","e","f"," ","d","e","p","s"," ","d","o"," ","["," ","]">>

\* mix.exs in the working directory: a text, or no file.
FileOf(text) == [exists |-> TRUE, text |-> text]

NoFile == [exists |-> FALSE, text |-> << >>]

Manifests ==
    {FileOf(ManifestExact), FileOf(ManifestRange), FileOf(ManifestTwoMarkers),
     FileOf(ManifestNoMarker), NoFile}

\* The elements of a set of positions, in ascending order.
RECURSIVE Ascending(_)
Ascending(set) ==
    IF set = {} THEN << >>
    ELSE LET least == CHOOSE x \in set : \A y \in set : x <= y
         IN  <<least>> \o Ascending(set \ {least})

\* What the checkbox prompt can return: the values of the ticked choices,
\* which are enabled ones, in the order of the choice list.
Selections(choices) ==
    LET enabled == {i \in 1..Len(choices) : ~choices[i].disabled}
        ticked == {t \in SUBSET enabled : Cardinality(t) <= MaxSelected}
    IN  {[i \in 1..Cardinality(t) |-> choices[Ascending(t)[i]].value] : t \in ticked}

\* How a build command (mix deps.get, mix format) can end.
BuildOutcomes == {"ok", "nonzero", "not launched"}

\* execSync throws when the command ends non-zero or cannot be launched.
ExecSyncThrows(outcome) == outcome # "ok"

\* Deno.run throws when the command cannot be launched; awaiting status()
\* resolves whatever the status is, and the status is not looked at.
DenoRunThrows(outcome) == outcome = "not launched"

CommandThrows(rt, outcome) ==
    IF rt = "node" THEN ExecSyncThrows(outcome) ELSE DenoRunThrows(outcome)

\* The two entry points.
Runtimes == {"node", "deno"}

(***************************************************************************)
(* The run.                                                                *)
(***************************************************************************)

VARIABLES
    runtime,       \* "node": src/src/index.ts runs, "deno": src/mod.ts
    pc,            \* where installPackages stands
    query,         \* args[1]
    file,          \* mix.exs on disk
    file0,         \* mix.exs as it was when the run started
    packages,      \* the search result
    existingDeps,  \* the result of parseMixExs
    choices,       \* the choices handed to the prompt
    selected,      \* answers.selectedPackages
    trace,         \* the external calls and console messages so far, in order
    exitCode       \* the process's exit status, "none" while it runs

vars == <<runtime, pc, query, file, file0, packages, existingDeps, choices, selected, trace, exitCode>>

Init ==
    /\ runtime \in Runtimes
    /\ pc = "start"
    /\ query \in Queries
    /\ file \in Manifests
    /\ file0 = file
    /\ packages = << >>
    /\ existingDeps = EmptyObject
    /\ choices = << >>
    /\ selected = << >>
    /\ trace = << >>
    /\ exitCode = "none"

\* if (!query) { console.error(...); process.exit(1); }
UsageError ==
    /\ pc = "start"
    /\ ~Truthy(query)
    /\ trace' = trace \o <<"error: Please provide a search term.">>
    /\ exitCode' = "1"
    /\ pc' = "exited"
    /\ UNCHANGED <<runtime, query, file, file0, packages, existingDeps, choices, selected>>

\* await searchHexPackages(query): the request goes out.
SearchRequest ==
    /\ pc = "start"
    /\ Truthy(query)
    /\ trace' = trace \o <<"http: GET packages?search">>
    /\ pc' = "awaitSearch"
    /\ UNCHANGED <<runtime, query, file, file0, packages, existingDeps, choices, selected, exitCode>>

\* The request fails: the rejection leaves installPackages unhandled.
SearchRejected ==
    /\ pc = "awaitSearch"
    /\ trace' = trace \o <<"uncaught: request failed">>
    /\ exitCode' = "1"
    /\ pc' = "exited"
    /\ UNCHANGED <<runtime, query, file, file0, packages, existingDeps, choices, selected>>

\* The search resolves with no package: "No packages found." and return.
SearchEmpty ==
    /\ pc = "awaitSearch"
    /\ packages' = << >>
    /\ trace' = trace \o <<"http: response", "log: No packages found.">>
    /\ exitCode' = "0"
    /\ pc' = "exited"
    /\ UNCHANGED <<runtime, query, file, file0, existingDeps, choices, selected>>

\* The search resolves with packages.
SearchResolved(result) ==
    /\ pc = "awaitSearch"
    /\ Len(result) > 0
    /\ packages' = result
    /\ trace' = trace \o <<"http: response">>
    /\ pc' = "parseMixExs"
    /\ UNCHANGED <<runtime, query, file, file0, existingDeps, choices, selected, exitCode>>

\* parseMixExs() throws out of its catch block: installPackages rejects
\* (index.ts only).
ParseThrows(exec) ==
    /\ pc = "parseMixExs"
    /\ ParseMixExs(runtime, exec).threw
    /\ trace' = trace \o <<"exec: mix deps failed", "uncaught: TypeError">>
    /\ exitCode' = "1"
    /\ pc' = "exited"
    /\ UNCHANGED <<runtime, query, file, file0, packages, existingDeps, choices, selected>>

\* parseMixExs() returns; the packages are categorized and sorted and the
\* prompt is shown.
ParseAndPrompt(exec) ==
    LET r == ParseMixExs(runtime, exec)
    IN  /\ pc = "parseMixExs"
        /\ ~r.threw
        /\ existingDeps' = r.deps
        /\ choices' = BuildChoices(CategorizeAll(packages, r.deps), query)
        /\ trace' = trace \o <<IF exec.ok THEN "exec: mix deps ok" ELSE "exec: mix deps failed">>
                          \o (IF r.info THEN <<"info: No Mix.Project found in the current directory.">> ELSE << >>)
                          \o <<"prompt: shown">>
        /\ pc' = "awaitPrompt"
        /\ UNCHANGED <<runtime, query, file, file0, packages, selected, exitCode>>

\* PromptNone with the length test letting an empty selection through
\* (>= 0): addToMixExs and the build commands run.
PromptNone_Proceeds ==
    /\ pc = "awaitPrompt"
    /\ file.exists
    /\ selected' = << >>
    /\ trace' = trace \o <<"prompt: answered", "fs: read mix.exs", "fs: write mix.exs",
                           "log: Dependencies updated in mix.exs",
                           "log: Running mix deps.get...">>
    /\ pc' = "depsGet"
    /\ UNCHANGED <<runtime, query, file, file0, packages, existingDeps, choices, exitCode>>

\* The prompt returns nothing selected: "No packages selected.".
PromptNone ==
    /\ pc = "awaitPrompt"
    /\ selected' = << >>
    /\ trace' = trace \o <<"prompt: answered", "log: No packages selected.">>
    /\ exitCode' = "0"
    /\ pc' = "exited"
    /\ UNCHANGED <<runtime, query, file, file0, packages, existingDeps, choices>>

\* PromptNoManifest with a fallback that starts from an empty text when
\* mix.exs cannot be read.
PromptNoManifest_Scaffolds(sel) ==
    /\ pc = "awaitPrompt"
    /\ Len(sel) > 0
    /\ ~file.exists
    /\ selected' = sel
    /\ file' = [exists |-> TRUE, text |-> << >>]
    /\ trace' = trace \o <<"prompt: answered", "fs: read mix.exs", "fs: write mix.exs",
                           "log: Dependencies updated in mix.exs",
                           "log: Running mix deps.get...">>
    /\ pc' = "depsGet"
    /\ UNCHANGED <<runtime, query, file0, packages, existingDeps, choices, exitCode>>

\* The prompt returns a selection and mix.exs is missing: readFileSync
\* throws out of addToMixExs and installPackages rejects.
PromptNoManifest(sel) ==
    /\ pc = "awaitPrompt"
    /\ Len(sel) > 0
    /\ ~file.exists
    /\ selected' = sel
    /\ trace' = trace \o <<"prompt: answered", "fs: read mix.exs", "uncaught: ENOENT">>
    /\ exitCode' = "1"
    /\ pc' = "exited"
    /\ UNCHANGED <<runtime, query, file, file0, packages, existingDeps, choices>>

\* The prompt returns a selection: addToMixExs reads, edits and writes
\* mix.exs, and formatAndFetchDeps starts.
PromptAndWrite(sel) ==
    /\ pc = "awaitPrompt"
    /\ Len(sel) > 0
    /\ file.exists
    /\ selected' = sel
    /\ file' = FileOf(ApplyAll(file.text, sel))
    /\ trace' = trace \o <<"prompt: answered", "fs: read mix.exs", "fs: write mix.exs",
                           "log: Dependencies updated in mix.exs",
                           "log: Running mix deps.get...">>
    /\ pc' = "depsGet"
    /\ UNCHANGED <<runtime, query, file0, packages, existingDeps, choices, exitCode>>

\* "mix deps.get" returns: "Running mix format..." and the next command.
DepsGetReturns(outcome) ==
    /\ pc = "depsGet"
    /\ ~CommandThrows(runtime, outcome)
    /\ trace' = trace \o <<"exec: mix deps.get " \o outcome, "log: Running mix format...">>
    /\ pc' = "format"
    /\ UNCHANGED <<runtime, query, file, file0, packages, existingDeps, choices, selected, exitCode>>

\* "mix deps.get" throws: the catch block reports it and formatAndFetchDeps
\* returns.
DepsGetThrows(outcome) ==
    /\ pc = "depsGet"
    /\ CommandThrows(runtime, outcome)
    /\ trace' = trace \o <<"exec: mix deps.get " \o outcome,
                           "error: An error occurred while running mix commands:">>
    /\ exitCode' = "0"
    /\ pc' = "exited"
    /\ UNCHANGED <<runtime, query, file, file0, packages, existingDeps, choices, selected>>

\* "mix format" returns: "Dependencies installed successfully.".
FormatReturns(outcome) ==
    /\ pc = "format"
    /\ ~CommandThrows(runtime, outcome)
    /\ trace' = trace \o <<"exec: mix format " \o outcome,
                           "log: Dependencies installed successfully.">>
    /\ exitCode' = "0"
    /\ pc' = "exited"
    /\ UNCHANGED <<runtime, query, file, file0, packages, existingDeps, choices, selected>>

\* "mix format" throws: the catch block reports it.
FormatThrows(outcome) ==
    /\ pc = "format"
    /\ CommandThrows(runtime, outcome)
    /\ trace' = trace \o <<"exec: mix format " \o outcome,
                           "error: An error occurred while running mix commands:">>
    /\ exitCode' = "0"
    /\ pc' = "exited"
    /\ UNCHANGED <<runtime, query, file, file0, packages, existingDeps, choices, selected>>

Next ==
    \/ UsageError
    \/ SearchRequest
    \/ SearchRejected
    \/ SearchEmpty
    \/ \E result \in SearchResults : SearchResolved(result)
    \/ \E exec \in MixDepsOutcomes : ParseThrows(exec)
    \/ \E exec \in MixDepsOutcomes : ParseAndPrompt(exec)
    \/ PromptNone
    \/ \E sel \in Selections(choices) : PromptNoManifest(sel)
    \/ \E sel \in Selections(choices) : PromptAndWrite(sel)
    \/ \E outcome \in BuildOutcomes : DepsGetReturns(outcome)
    \/ \E outcome \in BuildOutcomes : DepsGetThrows(outcome)
    \/ \E outcome \in BuildOutcomes : FormatReturns(outcome)
    \/ \E outcome \in BuildOutcomes : FormatThrows(outcome)

Spec == Init /\ [][Next]_vars

(***************************************************************************)
(* Vocabulary of the properties.  These definitions restate what the       *)
(* specification says in its own terms; they do not use the operators      *)
(* that model the code they are compared with.                             *)
(***************************************************************************)

InTrace(e) == \E i \in 1..Len(trace) : trace[i] = e

CountTrace(e) == Cardinality({i \in 1..Len(trace) : trace[i] = e})

LastOfTrace == trace[Len(trace)]

\* The classic edit distance (insert, delete or substitute one character),
\* by the textbook recurrence: D(x, 0) = x, D(0, y) = y, and D(x, y) is the
\* least of D(x-1, y) + 1, D(x, y-1) + 1 and D(x-1, y-1) + [a[x] # b[y]].
\* EditColumn(col, a, b, y) is the column D(0..Len(a), y) from column y - 1.
RECURSIVE EditColumn(_, _, _, _)
EditColumn(col, a, b, y) ==
    LET RECURSIVE Fill(_)
        Fill(acc) ==
            LET x == Len(acc)
            IN  IF x > Len(a) THEN acc
                ELSE Fill(Append(acc,
                         Min2(acc[x] + 1,
                              Min2(col[x + 1] + 1,
                                   col[x] + (IF a[x] = b[y] THEN 0 ELSE 1)))))
    IN  IF y > Len(b) THEN col
        ELSE EditColumn(Fill(<<y>>), a, b, y + 1)

EditDistance(a, b) ==
    EditColumn([x \in 1..(Len(a) + 1) |-> x - 1], a, b, 1)[Len(a) + 1]

\* 1 - editDistance(lower(name), lower(query)) / max(len(name), len(query)),
\* as the fraction num / den.
Score(name, q) ==
    LET m == Max2(Len(name), Len(q))
    IN  [num |-> m - EditDistance(ToLowerCase(name), ToLowerCase(q)), den |-> m]

\* The UTF-16 code unit of a character of the model's alphabet.
CodeUnit(c) ==
    IF InOrder(DigitOrder, c) THEN 47 + IndexIn(DigitOrder, c)
    ELSE IF c = "_" THEN 95
    ELSE IF InOrder(LetterOrder, c) THEN 96 + IndexIn(LetterOrder, c)
    ELSE 64 + IndexIn(LetterOrder, LowerChar(c))

\* a <= b in case-sensitive code-unit order.
CodeUnitLeq(a, b) ==
    LexCompare([i \in 1..Len(a) |-> CodeUnit(a[i])], [i \in 1..Len(b) |-> CodeUnit(b[i])]) <= 0

\* a <= b as localeCompare orders them.
LocaleLeq(a, b) == LocaleCompare(a, b) <= 0

\* a <= b in the named order of names.
NameLeq(order, a, b) ==
    IF order = "code unit" THEN CodeUnitLeq(a, b) ELSE LocaleLeq(a, b)

GroupRank(status) ==
    CASE status = "installed" -> 0
      [] status = "upgrade" -> 1
      [] OTHER -> 2

\* The place of a name in the registry's response.
RegistryIndex(name) == CHOOSE k \in 1..Len(packages) : packages[k].name = name

\* The choice list holds every search result once, the groups in the order
\* installed, upgrade, installable, the first two in registry order and the
\* installable ones by descending score, equal scores ascending by name in
\* the named order.
ChoiceListOrdered(order) ==
    /\ Len(choices) = Len(packages)
    /\ \A k \in 1..Len(packages) :
          Cardinality({i \in 1..Len(choices) :
                          /\ choices[i].value.name = packages[k].name
                          /\ choices[i].value.version = packages[k].version}) = 1
    /\ \A i, j \in 1..Len(choices) : i < j =>
          LET a == choices[i].value
              b == choices[j].value
          IN  /\ GroupRank(a.status) <= GroupRank(b.status)
              /\ (a.status = b.status /\ a.status # "none")
                    => RegistryIndex(a.name) < RegistryIndex(b.name)
              /\ (a.status = "none" /\ b.status = "none")
                    => \/ RelLess(Score(b.name, query), Score(a.name, query))
                       \/ /\ RelEqual(Score(a.name, query), Score(b.name, query))
                          /\ NameLeq(order, a.name, b.name)

\* `{:name, "~> version"}` and `{:name, "version"}` as texts.
RangeTupleText(name, version) ==
    <<"{", ":">> \o name \o <<",", " ", "\"", "~", ">", " ">> \o version \o <<"\"", "}">>

ExactTupleText(name, version) ==
    <<"{", ":">> \o name \o <<",", " ", "\"">> \o version \o <<"\"", "}">>

\* What follows an inserted tuple: a comma, a line break and four blanks.
SeparatorText == <<",", "\n", " ", " ", " ", " ">>

IsWsRun(text, i, j) == \A k \in i..(j - 1) : IsWs(text[k])

\* text[s .. e-1] is an opening marker: "defp deps do", whitespace, "[" and
\* all the whitespace that follows it.
MarkerOccurrence(text, s, e) ==
    /\ MatchAt(MarkerLiteral, text, s)
    /\ \E b \in (s + Len(MarkerLiteral))..(e - 1) :
          /\ text[b] = "["
          /\ IsWsRun(text, s + Len(MarkerLiteral), b)
          /\ IsWsRun(text, b + 1, e)
    /\ e <= Len(text) => ~IsWs(text[e])

MarkerStarts(text) ==
    {s \in 1..Len(text) : \E e \in (s + 1)..(Len(text) + 1) : MarkerOccurrence(text, s, e)}

HasMarker(text) == MarkerStarts(text) # {}

\* The position right after the first opening marker.
FirstMarkerEnd(text) ==
    LET s == CHOOSE x \in MarkerStarts(text) : \A y \in MarkerStarts(text) : x <= y
    IN  CHOOSE e \in (s + 1)..(Len(text) + 1) : MarkerOccurrence(text, s, e)

\* The new tuples of a selection, last selected first, each with its separator.
RECURSIVE ReversedTuples(_)
ReversedTuples(sel) ==
    IF sel = << >> THEN << >>
    ELSE ReversedTuples(Tail(sel))
         \o RangeTupleText(Head(sel).name, Head(sel).version) \o SeparatorText

AllInstallable(sel) == \A i \in 1..Len(sel) : sel[i].status = "none"

\* The dependency tuple of a name in a text: it starts at the first "{:name,"
\* and ends with the next "}"; its pinned string starts after the first quote.
TupleStarts(text, name) ==
    {s \in 1..Len(text) : MatchAt(<<"{", ":">> \o name \o <<",">>, text, s)}

HasTuple(text, name) == TupleStarts(text, name) # {}

TupleStart(text, name) ==
    CHOOSE x \in TupleStarts(text, name) : \A y \in TupleStarts(text, name) : x <= y

FirstAfter(text, from, ch) ==
    CHOOSE x \in from..Len(text) : text[x] = ch /\ \A y \in from..(x - 1) : text[y] # ch

TupleEnd(text, name) == FirstAfter(text, TupleStart(text, name), "}") + 1

PinIsRange(text, name) ==
    MatchAt(<<"~", ">">>, text, FirstAfter(text, TupleStart(text, name), "\"") + 1)

\* The text with the tuple of pkg.name replaced by one for pkg.version,
\* keeping the range operator when the old pin had one.
WithUpgradedTuple(text, pkg) ==
    Slice(text, 1, TupleStart(text, pkg.name))
    \o (IF PinIsRange(text, pkg.name)
        THEN RangeTupleText(pkg.name, pkg.version)
        ELSE ExactTupleText(pkg.name, pkg.version))
    \o Slice(text, TupleEnd(text, pkg.name), Len(text) + 1)

\* The external calls of a run, by kind and in order.
EventKind(e) ==
    CASE e = "http: GET packages?search" -> "search"
      [] e = "http: response" -> "search done"
      [] e \in {"exec: mix deps ok", "exec: mix deps failed"} -> "lock listing"
      [] e = "prompt: shown" -> "prompt"
      [] e = "prompt: answered" -> "prompt done"
      [] e = "fs: read mix.exs" -> "read"
      [] e = "fs: write mix.exs" -> "write"
      [] e \in {"exec: mix deps.get " \o o : o \in BuildOutcomes} -> "fetch"
      [] e \in {"exec: mix format " \o o : o \in BuildOutcomes} -> "format"
      [] OTHER -> "message"

IsCall(e) == EventKind(e) # "message"

Calls ==
    LET c == SelectSeq(trace, IsCall)
    IN  [i \in 1..Len(c) |-> EventKind(c[i])]

FullOrder ==
    <<"search", "search done", "lock listing", "prompt", "prompt done",
      "read", "write", "fetch", "format">>

\* A build command ended non-zero or could not be launched.
BuildFailed ==
    \E o \in BuildOutcomes \ {"ok"} :
        InTrace("exec: mix deps.get " \o o) \/ InTrace("exec: mix format " \o o)

\* A build command made the runtime's call throw.
BuildThrew ==
    \E o \in BuildOutcomes :
        /\ CommandThrows(runtime, o)
        /\ InTrace("exec: mix deps.get " \o o) \/ InTrace("exec: mix format " \o o)

BuildWarning == "error: An error occurred while running mix commands:"

(***************************************************************************)
(* The properties.                                                         *)
(***************************************************************************)

\* C1: once the prompt is shown, every search result is classified by the
\* lock mapping alone: no status when the mapping has no entry for its name,
\* "installed" when the locked version equals the latest one, "upgrade"
\* carrying the locked version when it differs.
C1_ClassifiedByLockMapping ==
    pc = "awaitPrompt" =>
        /\ \A k \in 1..Len(packages) :
              \E i \in 1..Len(choices) : choices[i].value.name = packages[k].name
        /\ \A i \in 1..Len(choices) :
              LET p == choices[i].value
                  locked == p.name \in DOMAIN existingDeps
              IN  /\ ~locked => (p.status = "none" /\ p.currentVersion = Undefined)
                  /\ (locked /\ existingDeps[p.name] = p.version) => p.status = "installed"
                  /\ (locked /\ existingDeps[p.name] # p.version)
                        => (p.status = "upgrade" /\ p.currentVersion = existingDeps[p.name])

\* C2, as stated: the choice list is installed, upgrade, installable, the
\* installable ones by descending score and, at equal scores, ascending by
\* name in case-sensitive code-unit order; every result appears once.
C2_ChoiceOrderCodeUnit ==
    pc = "awaitPrompt" => ChoiceListOrdered("code unit")

\* C2, amended: the same list, with equal scores ordered ascending by name
\* as localeCompare orders them.
C2_ChoiceOrderLocale ==
    pc = "awaitPrompt" => ChoiceListOrdered("locale")

\* C2's case: an upgrade ahead of two installable results of equal score
\* whose names the two orders rank differently.
C2_Witness ==
    /\ pc = "awaitPrompt"
    /\ \E h, i, j \in 1..Len(choices) :
          /\ h < i /\ i < j
          /\ choices[h].value.status = "upgrade"
          /\ choices[i].value.status = "none" /\ choices[j].value.status = "none"
          /\ RelEqual(Score(choices[i].value.name, query), Score(choices[j].value.name, query))
          /\ ~CodeUnitLeq(choices[i].value.name, choices[j].value.name)

\* C3: with one installable package selected and an opening marker in the
\* manifest, the text written is the original text with the package's
\* range-pinned tuple (and its separator) put right after the first opening
\* marker, every original character kept in place around it.
C3_SingleInsertAfterMarker ==
    (/\ pc = "depsGet"
     /\ Len(selected) = 1
     /\ selected[1].status = "none"
     /\ HasMarker(file0.text))
    => LET e == FirstMarkerEnd(file0.text)
       IN  file.text = Slice(file0.text, 1, e)
                       \o RangeTupleText(selected[1].name, selected[1].version)
                       \o SeparatorText
                       \o Slice(file0.text, e, Len(file0.text) + 1)

\* C3's case: one installable package written into a manifest that already
\* lists tuples after its marker.
C3_Witness ==
    /\ pc = "depsGet"
    /\ Len(selected) = 1
    /\ selected[1].status = "none"
    /\ file0.text = ManifestExact
    /\ file.text # file0.text

\* C4: with one package of status "upgrade" selected whose tuple is in the
\* manifest, the text written is the original with only that tuple changed
\* to the latest version, range-pinned if the old pin began with "~>" and
\* exact otherwise.
C4_UpgradeKeepsOperator ==
    (/\ pc = "depsGet"
     /\ Len(selected) = 1
     /\ selected[1].status = "upgrade"
     /\ HasTuple(file0.text, selected[1].name))
    => file.text = WithUpgradedTuple(file0.text, selected[1])

\* C4 for the exact-pinned tuples alone.
C4_ExactPinUpgraded ==
    (/\ pc = "depsGet"
     /\ Len(selected) = 1
     /\ selected[1].status = "upgrade"
     /\ HasTuple(file0.text, selected[1].name)
     /\ ~PinIsRange(file0.text, selected[1].name))
    => file.text = WithUpgradedTuple(file0.text, selected[1])

\* C5: when the search returns nothing or nothing is selected, the manifest
\* is neither read nor written, no build command runs and the run ends with
\* status 0 on an informational message; with an empty search result the
\* lock listing and the prompt are not reached either.
C5_NothingToDo ==
    LET emptySearch == InTrace("http: response") /\ packages = << >>
        noSelection == InTrace("prompt: answered") /\ selected = << >>
    IN  /\ (emptySearch \/ noSelection) =>
              /\ ~InTrace("fs: read mix.exs") /\ ~InTrace("fs: write mix.exs")
              /\ \A i \in 1..Len(trace) : EventKind(trace[i]) \notin {"fetch", "format"}
              /\ file = file0
              /\ pc = "exited" /\ exitCode = "0"
              /\ LastOfTrace \in {"log: No packages found.", "log: No packages selected."}
        /\ emptySearch =>
              /\ \A i \in 1..Len(trace) : EventKind(trace[i]) \notin {"lock listing", "prompt"}
              /\ LastOfTrace = "log: No packages found."

\* C5's case: a run that reached the prompt, with a manifest on disk, and
\* ended on an empty selection.
C5_Witness ==
    /\ pc = "exited"
    /\ InTrace("prompt: answered")
    /\ selected = << >>
    /\ file0.exists

\* C6: with a selection made and no manifest file, the run aborts before
\* any mutation: no file is created or written, "Dependencies updated in
\* mix.exs" is not printed and no build command runs.
C6_MissingManifestAborts ==
    (InTrace("prompt: answered") /\ selected # << >> /\ ~file0.exists) =>
        /\ file = NoFile
        /\ ~InTrace("fs: write mix.exs")
        /\ ~InTrace("log: Dependencies updated in mix.exs")
        /\ \A i \in 1..Len(trace) : EventKind(trace[i]) \notin {"fetch", "format"}
        /\ pc = "exited" /\ exitCode = "1"

\* C6's case: a selection was made and there was no mix.exs.
C6_Witness ==
    /\ InTrace("prompt: answered")
    /\ selected # << >>
    /\ ~file0.exists
    /\ pc = "exited"

\* C7: whenever the lock-listing command fails, no error leaves parseMixExs:
\* the mapping is empty, the prompt is shown and every candidate classifies
\* as installable.
C7_LockFailureSwallowed ==
    InTrace("exec: mix deps failed") =>
        /\ ~InTrace("uncaught: TypeError")
        /\ InTrace("prompt: shown")
        /\ DOMAIN existingDeps = {}
        /\ \A i \in 1..Len(choices) : choices[i].value.status = "none"

\* C8: once the manifest is written, a build command that ends non-zero or
\* cannot be launched only adds a warning: the file keeps the text
\* addToMixExs wrote, nothing more is written and the run ends with status 0.
C8_BuildFailureIsWarning ==
    BuildFailed =>
        /\ CountTrace("fs: write mix.exs") = 1
        /\ file = FileOf(ApplyAll(file0.text, selected))
        /\ LastOfTrace = BuildWarning
        /\ CountTrace(BuildWarning) = 1
        /\ pc = "exited" /\ exitCode = "0"

\* C8 for the failures that make the runtime's call throw (every failure
\* under Node, a command that cannot be launched under Deno).
C8_ThrownFailureIsWarning ==
    BuildThrew =>
        /\ CountTrace("fs: write mix.exs") = 1
        /\ file = FileOf(ApplyAll(file0.text, selected))
        /\ LastOfTrace = BuildWarning
        /\ CountTrace(BuildWarning) = 1
        /\ pc = "exited" /\ exitCode = "0"

\* C8, the part that holds of every failure: no rollback, no further
\* write, and a finished run ends with status 0.
C8_NoRollback ==
    BuildFailed =>
        /\ CountTrace("fs: write mix.exs") = 1
        /\ file = FileOf(ApplyAll(file0.text, selected))
        /\ pc = "exited" => exitCode = "0"

\* C9: every finished run with a selection and a manifest makes its calls in
\* the fixed order search, lock listing, prompt, one read, one write, the
\* fetch command, the format command, both build commands included.
C9_FixedOrderBothCommands ==
    (pc = "exited" /\ selected # << >> /\ file0.exists) => Calls = FullOrder

\* C10: with several installable packages selected and an opening marker in
\* the manifest, the text written has the new tuples right after the first
\* opening marker, last selected first, followed by the original text.
C10_InsertsInReverseOrder ==
    (/\ pc = "depsGet"
     /\ Len(selected) >= 2
     /\ AllInstallable(selected)
     /\ HasMarker(file0.text))
    => LET e == FirstMarkerEnd(file0.text)
       IN  file.text = Slice(file0.text, 1, e)
                       \o ReversedTuples(selected)
                       \o Slice(file0.text, e, Len(file0.text) + 1)

\* C10's case: two installable packages written into a manifest with a marker.
C10_Witness ==
    /\ pc = "depsGet"
    /\ Len(selected) >= 2
    /\ AllInstallable(selected)
    /\ HasMarker(file0.text)
    /\ selected[1].name # selected[2].name

=============================================================================
